---- MODULE Spec2Model ----
(***************************************************************************)
(* The document dataroom: profiles, document catalog, access grants, audit *)
(* log, the two blob stores, and the request handlers and browser actions  *)
(* that read and write them.  Every handler is one atomic action; the      *)
(* database's triggers, constraints and row-level policies are part of the *)
(* action that writes the table.                                           *)
(***************************************************************************)
EXTENDS Integers, FiniteSets, Sequences, TLC

(***************************************************************************)
(* Bounds of the model.                                                    *)
(***************************************************************************)
MaxDocs  == 2      \* catalog rows ever created (document ids d1..dMaxDocs)
MaxAudit == 2      \* audit rows ever inserted  (audit ids 1..MaxAudit)
MaxClock == 2      \* values Date.now() takes
MaxUuid  == 2      \* values crypto.randomUUID() hands out
MaxFiles == 2      \* files submitted to one uploadFiles call

(***************************************************************************)
(* Program constants.                                                      *)
(***************************************************************************)
maxFileSize == 52428800          \* 50 * 1024 * 1024

Users      == {"u1", "u2", "u3"} \* identities, one per e-mail address
Anon       == "anon"             \* a request without a valid bearer token
Callers    == Users \cup {Anon}

DocId(k)   == "d" \o ToString(k) \* the k-th id gen_random_uuid() gives a catalog row
DocIds     == {DocId(k) : k \in 1 .. MaxDocs}
NoDoc      == ""                 \* an absent documentId

Categories == {"Financials"}
NoBytes    == ""
\* The files a client submits: one at the ceiling, one of other content, one
\* a byte over the ceiling.
Files ==
  { [name |-> "a.pdf", size |-> maxFileSize,     body |-> "x"],
    [name |-> "a.pdf", size |-> maxFileSize,     body |-> "y"],
    [name |-> "a.pdf", size |-> maxFileSize + 1, body |-> "big"] }

\* The x-forwarded-for header of a request: an address, or absent.
XffValues  == {"10.0.0.7", ""}
\* window.location.hostname: a DNS name, or the address of the VM.
Hostnames  == {"dataroom.example.com", "34.1.2.3"}
\* What the inet column of audit_logs accepts (NULL is accepted as well).
InetLiterals == {"10.0.0.7", "34.1.2.3"}
NullValue  == "NULL"

\* The working directory of the local-file handlers: the directory the web
\* server serves, under which upload-file-local writes /var/www/uploads.
Cwd == "/var/www"

VARIABLES
  profiles,         \* public.profiles: user_id -> [role, is_active]
  documents,        \* public.documents: id -> catalog row
  document_access,  \* public.document_access: set of [document_id, user_id, granted_by]
  audit_logs,       \* public.audit_logs: set of [id, action, document_id, user_id]
  bucket,           \* storage bucket 'documents': object name -> bytes
  disk,             \* local filesystem: absolute path -> bytes
  nextDoc,          \* number of catalog ids handed out
  nextAudit,        \* number of audit ids handed out
  nextUuid,         \* number of crypto.randomUUID() values handed out
  now,              \* Date.now()
  resp,             \* the response of the last request or browser action
  pending,          \* browser session -> the saveDocumentAccess it is running
  inserting,        \* user_id -> the profile row of an insert that has not committed
  auth              \* the browser session: AuthProvider's state and what it waits for

vars == <<profiles, documents, document_access, audit_logs, bucket, disk,
          nextDoc, nextAudit, nextUuid, now, resp, pending, inserting, auth>>

\* Browser sessions that run saveDocumentAccess step by step.
Sessions == {"s1", "s2"}
IdleEdit == [pc |-> "idle", caller |-> "anon", user |-> "anon", sel |-> {}]

\* AuthProvider: no user, and what fetchProfile returns (null, or the row).
NoUser    == "none"
Null      == [found |-> FALSE, role |-> "user", is_active |-> FALSE]
Row(p)    == [found |-> TRUE, role |-> p.role, is_active |-> p.is_active]
\* The provider after it has mounted without a stored session: the
\* INITIAL_SESSION event and getSession() have both set loading to false.
\* token is the session of the client; fetches are the deferred profile
\* fetches under way; pc, email, data and error are those of signIn.
Mounted ==
  [token |-> NoUser, user |-> NoUser, profile |-> Null, loading |-> FALSE,
   fetches |-> {}, pc |-> "idle", email |-> NoUser, data |-> Null, error |-> FALSE]

Put(f, k, v) == [x \in (DOMAIN f) \cup {k} |-> IF x = k THEN v ELSE f[x]]
Drop(f, ks)  == [x \in (DOMAIN f) \ ks |-> f[x]]

(***************************************************************************)
(* Strings, as the handlers compute them.                                  *)
(***************************************************************************)
\* The first index at which sub occurs in s, or 0.
IndexOf(s, sub) ==
  LET hits == {i \in 1 .. (Len(s) - Len(sub) + 1) : SubSeq(s, i, i + Len(sub) - 1) = sub}
  IN  IF hits = {} THEN 0 ELSE CHOOSE i \in hits : \A j \in hits : i <= j

\* String.prototype.replace(sub, rep) with a string pattern: the first occurrence.
Replace(s, sub, rep) ==
  LET i == IndexOf(s, sub)
  IN  IF i = 0 THEN s
      ELSE SubSeq(s, 1, i - 1) \o rep \o SubSeq(s, i + Len(sub), Len(s))

\* s.split(sep).pop() for a one-character sep: what follows the last sep.
SplitPop(s, sep) ==
  LET seps == {i \in 1 .. Len(s) : SubSeq(s, i, i) = sep}
      last == IF seps = {} THEN 0 ELSE CHOOSE i \in seps : \A j \in seps : j <= i
  IN  SubSeq(s, last + 1, Len(s))

\* The URL pathname supabase.functions.invoke(fn) requests.
InvokePath(fn) == "/functions/v1/" \o fn

(***************************************************************************)
(* Responses.                                                              *)
(***************************************************************************)
NoResp ==
  [op |-> "none", handler |-> "none", caller |-> Anon, doc |-> NoDoc, user |-> Anon,
   sel |-> {}, status |-> 0, error |-> "none", bytes |-> NoBytes,
   count |-> 0, total |-> 0, failed |-> {}, mailed |-> FALSE, asked |-> NoDoc,
   path |-> "", files |-> <<>>, tried |-> 0]

R(op, handler, caller) ==
  [NoResp EXCEPT !.op = op, !.handler = handler, !.caller = caller]

Err(r, status, error) == [r EXCEPT !.status = status, !.error = error]
\* An error response of an upload whose catalog insert failed after the blob
\* was written at path; cleaned tells whether the removal of the blob worked.
DbErr(r, status, path, cleaned) ==
  [Err(r, status, "db_failed") EXCEPT
     !.path = path, !.failed = IF cleaned THEN {"db"} ELSE {"db", "cleanup"}]
Ok(r)                 == [r EXCEPT !.status = 200]

(***************************************************************************)
(* Profiles.                                                               *)
(***************************************************************************)
\* The first version of the trigger function: promotes the first profile and
\* leaves is_active at what the insert gave.
ensure_first_user_is_admin_v1(profs, new) ==
  IF Cardinality(DOMAIN profs) = 0
    THEN [new EXCEPT !.role = "admin"]
    ELSE new

\* BEFORE INSERT ON public.profiles, as replaced by the later migration.
ensure_first_user_is_admin(profs, new) ==
  IF Cardinality(DOMAIN profs) = 0
    THEN [new EXCEPT !.role = "admin", !.is_active = TRUE]
    ELSE [new EXCEPT !.is_active = FALSE]

\* AFTER INSERT ON auth.users: the profile row for a new identity.  The
\* column default of is_active is true; role is given as 'user'.
handle_new_user(profs, u) ==
  Put(profs, u, ensure_first_user_is_admin(profs, [role |-> "user", is_active |-> TRUE]))

HasProfile(u) == u \in DOMAIN profiles
IsAdmin(u)    == HasProfile(u) /\ profiles[u].role = "admin"
\* supabase.auth.getUser(token): the token names an existing identity.  Every
\* identity has its profile (handle_new_user runs in the identity's insert).
Authenticated(c) == c \in DOMAIN profiles

Empty == [x \in {} |-> NoBytes]

Init ==
  /\ profiles = [x \in {} |-> [role |-> "user", is_active |-> FALSE]]
  /\ documents = [x \in {} |-> [name |-> "", file_path |-> "", file_size |-> 0, uploaded_by |-> Anon]]
  /\ document_access = {}
  /\ audit_logs = {}
  /\ bucket = Empty
  /\ disk = Empty
  /\ nextDoc = 0
  /\ nextAudit = 0
  /\ nextUuid = 0
  /\ now = 1
  /\ resp = NoResp
  /\ pending = [s \in Sessions |-> IdleEdit]
  /\ inserting = [x \in {} |-> [role |-> "user", is_active |-> FALSE]]
  /\ auth = Mounted

\* AuthContext.signUp: supabase.auth.signUp creates the identity when the
\* e-mail address is new; the identity's insert creates its profile.
signUp(email) ==
  /\ IF email \in DOMAIN profiles
       THEN /\ UNCHANGED profiles
            /\ resp' = Err([R("signUp", "signUp", Anon) EXCEPT !.user = email], 400, "exists")
       ELSE /\ profiles' = handle_new_user(profiles, email)
            /\ resp' = Ok([R("signUp", "signUp", Anon) EXCEPT !.user = email])
  /\ UNCHANGED <<documents, document_access, audit_logs, bucket, disk,
                 nextDoc, nextAudit, nextUuid, now, pending, inserting, auth>>

\* The insert of a profile as the database runs it next to other inserts:
\* the BEFORE INSERT trigger counts the rows that are committed, and the row
\* it returns is committed later.  No lock is taken between the two.
handle_new_user_trigger(u) ==
  /\ u \notin DOMAIN profiles
  /\ u \notin DOMAIN inserting
  /\ inserting' = Put(inserting, u,
                      ensure_first_user_is_admin(profiles, [role |-> "user", is_active |-> TRUE]))
  /\ UNCHANGED <<profiles, documents, document_access, audit_logs, bucket, disk,
                 nextDoc, nextAudit, nextUuid, now, resp, pending, auth>>

handle_new_user_commit(u) ==
  /\ u \in DOMAIN inserting
  /\ profiles' = Put(profiles, u, inserting[u])
  /\ inserting' = Drop(inserting, {u})
  /\ resp' = Ok([R("signUp", "signUp", Anon) EXCEPT !.user = u])
  /\ UNCHANGED <<documents, document_access, audit_logs, bucket, disk,
                 nextDoc, nextAudit, nextUuid, now, pending, auth>>

\* create-user without the lookup of the e-mail address in profiles, with an
\* identity store that takes the address a second time.
createUserNoLookup(c, email, mailed) ==
  /\ profiles' = IF email \in DOMAIN profiles
                   THEN [profiles EXCEPT ![email] = [role |-> "user", is_active |-> FALSE]]
                   ELSE handle_new_user(profiles, email)
  /\ resp' = Ok([R("createUser", "create-user", c) EXCEPT
                    !.user = email, !.mailed = mailed,
                    !.failed = IF mailed THEN {} ELSE {"email"}])
  /\ UNCHANGED <<documents, document_access, audit_logs, bucket, disk,
                 nextDoc, nextAudit, nextUuid, now, pending, inserting, auth>>

\* create-user: reads no Authorization header.  A profile with the e-mail
\* address refuses the request; otherwise auth.admin.createUser creates the
\* identity (and its profile), and the welcome e-mail is sent when a Resend key
\* is configured and the send does not fail.
createUser(c, email, mailed) ==
  /\ IF email \in DOMAIN profiles
       THEN /\ UNCHANGED profiles
            /\ resp' = Err([R("createUser", "create-user", c) EXCEPT !.user = email], 400, "exists")
       ELSE /\ profiles' = handle_new_user(profiles, email)
            /\ resp' = Ok([R("createUser", "create-user", c) EXCEPT
                              !.user = email, !.mailed = mailed,
                              !.failed = IF mailed THEN {} ELSE {"email"}])
  /\ UNCHANGED <<documents, document_access, audit_logs, bucket, disk,
                 nextDoc, nextAudit, nextUuid, now, pending, inserting, auth>>

\* Row-level policies of public.profiles for UPDATE: an admin any row, a
\* user their own row while its role is 'user'.
MayUpdateProfile(c, u) ==
  \/ IsAdmin(c)
  \/ c = u /\ HasProfile(u) /\ profiles[u].role = "user"

\* UserManagement.toggleUserStatus(userId, currentStatus): an update through
\* the browser's client.  An update no policy allows changes no row and
\* reports no error.
toggleUserStatus(c, u, currentStatus) ==
  /\ u \in DOMAIN profiles
  /\ profiles' = IF MayUpdateProfile(c, u)
                   THEN [profiles EXCEPT ![u].is_active = ~currentStatus]
                   ELSE profiles
  /\ resp' = Ok([R("toggleUserStatus", "toggleUserStatus", c) EXCEPT !.user = u])
  /\ UNCHANGED <<documents, document_access, audit_logs, bucket, disk,
                 nextDoc, nextAudit, nextUuid, now, pending, inserting, auth>>

(***************************************************************************)
(* The browser session: AuthProvider.                                      *)
(***************************************************************************)
\* Everything but the browser session.
backend == <<profiles, documents, document_access, audit_logs, bucket, disk,
             nextDoc, nextAudit, nextUuid, now, resp, pending, inserting>>

\* fetchProfile(userId) sent with the session of `as`: the row when the
\* request works and a row-level policy lets `as` read it, else null (.single()
\* on no row is an error, and every error gives null).
fetchProfile(as, userId, ok) ==
  IF /\ ok /\ HasProfile(userId) /\ HasProfile(as)
     /\ (as = userId \/ IsAdmin(as))
    THEN Row(profiles[userId]) ELSE Null

\* A deferred profile fetch: scheduled by setTimeout, then sent.
Deferred(userId) == [user |-> userId, stage |-> "timer", as |-> NoUser]
Sent(userId, as) == [user |-> userId, stage |-> "sent", as |-> as]

\* The listener of onAuthStateChange, run inside the call that changes the
\* session: with a user it defers the profile fetch, without one it clears
\* the profile and loading.
onAuthStateChange(a, sessionUser) ==
  IF sessionUser # NoUser
    THEN [a EXCEPT !.token = sessionUser, !.user = sessionUser,
                   !.fetches = @ \cup {Deferred(sessionUser)}]
    ELSE [a EXCEPT !.token = NoUser, !.user = NoUser,
                   !.profile = Null, !.loading = FALSE]

\* signIn that does not look at is_active.
signIn_inactive_never(profileData) == FALSE

\* signIn's test on the profile it has fetched.
signIn_inactive(profileData) == profileData.found /\ ~profileData.is_active

\* signIn(email, password) from the form of the Auth page, which is there
\* while no user is cached and loading is false: setLoading(true), then
\* signInWithPassword; a rejection is returned as the error, an acceptance
\* stores the session and runs the listener.
signIn(email, accepted) ==
  /\ ~auth.loading /\ auth.user = NoUser /\ auth.pc \in {"idle", "done"}
  /\ LET a == [auth EXCEPT !.loading = TRUE, !.email = email, !.data = Null]
     IN  auth' = IF accepted /\ HasProfile(email)
                   THEN [onAuthStateChange(a, email) EXCEPT !.pc = "fetching", !.error = FALSE]
                   ELSE [a EXCEPT !.pc = "done", !.error = TRUE]
  /\ UNCHANGED backend

\* signIn after its own fetchProfile: an inactive profile leads to signOut,
\* anything else to { error: null }.
signIn_fetchProfile(ok) ==
  /\ auth.pc = "fetching"
  /\ \E profileData \in {fetchProfile(auth.token, auth.email, ok)} :
       auth' = IF signIn_inactive(profileData)
                 THEN [auth EXCEPT !.data = profileData, !.pc = "signingOut"]
                 ELSE [auth EXCEPT !.data = profileData, !.pc = "done", !.error = FALSE]
  /\ UNCHANGED backend

\* signIn after supabase.auth.signOut(): the session is gone, the listener
\* has run without a user, and the pending-approval error is returned.
signIn_signOut ==
  /\ auth.pc = "signingOut"
  /\ auth' = [onAuthStateChange(auth, NoUser) EXCEPT !.pc = "done", !.error = TRUE]
  /\ UNCHANGED backend

\* The setTimeout callback of the listener starts: fetchProfile is sent with
\* the session the client holds at that time.
onAuthStateChange_timeout(f) ==
  /\ f \in auth.fetches /\ f.stage = "timer"
  /\ auth' = [auth EXCEPT !.fetches = (@ \ {f}) \cup {Sent(f.user, auth.token)}]
  /\ UNCHANGED backend

\* A profile fetch of the listener or of getSession returns:
\* setProfile(profileData); setLoading(false).
onAuthStateChange_fetched(f, ok) ==
  /\ f \in auth.fetches /\ f.stage = "sent"
  /\ auth' = [auth EXCEPT !.fetches = @ \ {f},
                          !.profile = fetchProfile(f.as, f.user, ok),
                          !.loading = FALSE]
  /\ UNCHANGED backend

\* The page is loaded: state starts over, callbacks of the old page are gone;
\* the listener gets the stored session and getSession() reads it.
getSession ==
  /\ auth' = IF auth.token = NoUser THEN Mounted
             ELSE [onAuthStateChange([Mounted EXCEPT !.loading = TRUE], auth.token)
                     EXCEPT !.fetches = @ \cup {Sent(auth.token, auth.token)}]
  /\ UNCHANGED backend

\* signOut() of a signed-in user: the session is removed and /auth is loaded.
signOut ==
  /\ auth.user # NoUser /\ ~auth.loading
  /\ auth' = Mounted
  /\ UNCHANGED backend

(***************************************************************************)
(* Access grants.                                                          *)
(***************************************************************************)
GrantsOf(acc, u) == {g.document_id : g \in {h \in acc : h.user_id = u}}

\* saveDocumentAccess as one transaction: a failed insert undoes the delete.
saveDocumentAccessAtomic(c, u, S, fault) ==
  LET r       == [R("saveDocumentAccess", "saveDocumentAccess", c) EXCEPT !.user = u, !.sel = S]
      deleted == IsAdmin(c) /\ fault # "delete"
      afterDelete == IF deleted THEN {g \in document_access : g.user_id # u}
                                ELSE document_access
      delFail == IF fault = "delete" THEN {"delete"} ELSE {}
      rows    == {[document_id |-> d, user_id |-> u, granted_by |-> c] : d \in S}
      insertOk == /\ fault # "insert" /\ IsAdmin(c) /\ S \subseteq DOMAIN documents
                  /\ \A d \in S : d \notin GrantsOf(afterDelete, u)
  IN
  /\ u \in DOMAIN profiles
  /\ IF ~Authenticated(c)
       THEN /\ UNCHANGED document_access
            /\ resp' = Err(r, 401, "not_authenticated")
       ELSE IF S # {} /\ ~insertOk
         THEN /\ UNCHANGED document_access
              /\ resp' = Err([r EXCEPT !.failed = delFail \cup {"insert"}], 500, "insert_failed")
         ELSE /\ document_access' = afterDelete \cup rows
              /\ resp' = Ok([r EXCEPT !.failed = delFail])
  /\ UNCHANGED <<profiles, documents, audit_logs, bucket, disk,
                 nextDoc, nextAudit, nextUuid, now, pending, inserting, auth>>

\* saveDocumentAccess that only inserts the selection.
saveDocumentAccessNoDelete(c, u, S, fault) ==
  LET r       == [R("saveDocumentAccess", "saveDocumentAccess", c) EXCEPT !.user = u, !.sel = S]
      rows    == {[document_id |-> d, user_id |-> u, granted_by |-> c] : d \in S}
      insertOk == /\ fault # "insert" /\ IsAdmin(c) /\ S \subseteq DOMAIN documents
                  /\ \A d \in S : d \notin GrantsOf(document_access, u)
  IN
  /\ u \in DOMAIN profiles
  /\ IF ~Authenticated(c)
       THEN /\ UNCHANGED document_access
            /\ resp' = Err(r, 401, "not_authenticated")
       ELSE IF S # {} /\ ~insertOk
         THEN /\ UNCHANGED document_access
              /\ resp' = Err([r EXCEPT !.failed = {"insert"}], 500, "insert_failed")
         ELSE /\ document_access' = document_access \cup rows
              /\ resp' = Ok(r)
  /\ UNCHANGED <<profiles, documents, audit_logs, bucket, disk,
                 nextDoc, nextAudit, nextUuid, now, pending, inserting, auth>>

\* UserManagement.saveDocumentAccess for selectedUser u and selectedDocuments
\* S, through the browser's client (row-level policies apply).  The delete's
\* result is not read; the insert is one statement, refused as a whole by a
\* row-level policy, a foreign key or the UNIQUE(document_id, user_id).
saveDocumentAccess(c, u, S, fault) ==
  LET r       == [R("saveDocumentAccess", "saveDocumentAccess", c) EXCEPT !.user = u, !.sel = S]
      deleted == IsAdmin(c) /\ fault # "delete"
      afterDelete == IF deleted THEN {g \in document_access : g.user_id # u}
                                ELSE document_access
      delFail == IF fault = "delete" THEN {"delete"} ELSE {}
      rows    == {[document_id |-> d, user_id |-> u, granted_by |-> c] : d \in S}
      insertOk == /\ fault # "insert" /\ IsAdmin(c) /\ S \subseteq DOMAIN documents
                  /\ \A d \in S : d \notin GrantsOf(afterDelete, u)
  IN
  /\ u \in DOMAIN profiles
  /\ IF ~Authenticated(c)
       THEN /\ UNCHANGED document_access
            /\ resp' = Err(r, 401, "not_authenticated")
       ELSE IF S # {} /\ ~insertOk
         THEN /\ document_access' = afterDelete
              /\ resp' = Err([r EXCEPT !.failed = delFail \cup {"insert"}], 500, "insert_failed")
         ELSE /\ document_access' = afterDelete \cup rows
              /\ resp' = Ok([r EXCEPT !.failed = delFail])
  /\ UNCHANGED <<profiles, documents, audit_logs, bucket, disk,
                 nextDoc, nextAudit, nextUuid, now, pending, inserting, auth>>

\* saveDocumentAccess as the two requests it sends, for sessions that run at
\* the same time.  The first request: DELETE FROM document_access WHERE
\* user_id = u, under the row-level policy; its result is not read.
saveDocumentAccess_delete(s, c, u, S) ==
  /\ pending[s].pc = "idle"
  /\ Authenticated(c)
  /\ u \in DOMAIN profiles
  /\ document_access' = IF IsAdmin(c) THEN {g \in document_access : g.user_id # u}
                                       ELSE document_access
  /\ pending' = [pending EXCEPT ![s] = [pc |-> "deleted", caller |-> c, user |-> u, sel |-> S]]
  /\ UNCHANGED <<profiles, documents, audit_logs, bucket, disk,
                 nextDoc, nextAudit, nextUuid, now, resp, inserting, auth>>

\* The second request: the insert of the selection as one statement, and the
\* toast.
saveDocumentAccess_insert(s) ==
  LET c    == pending[s].caller
      u    == pending[s].user
      S    == pending[s].sel
      r    == [R("saveDocumentAccess", "saveDocumentAccess", c) EXCEPT !.user = u, !.sel = S]
      rows == {[document_id |-> d, user_id |-> u, granted_by |-> c] : d \in S}
      insertOk == /\ IsAdmin(c) /\ S \subseteq DOMAIN documents
                  /\ \A d \in S : d \notin GrantsOf(document_access, u)
  IN
  /\ pending[s].pc = "deleted"
  /\ IF S # {} /\ ~insertOk
       THEN /\ UNCHANGED document_access
            /\ resp' = Err([r EXCEPT !.failed = {"insert"}], 500, "insert_failed")
       ELSE /\ document_access' = document_access \cup rows
            /\ resp' = Ok(r)
  /\ pending' = [pending EXCEPT ![s].pc = "done"]
  /\ UNCHANGED <<profiles, documents, audit_logs, bucket, disk,
                 nextDoc, nextAudit, nextUuid, now, inserting, auth>>

(***************************************************************************)
(* Audit log.                                                              *)
(***************************************************************************)
ValidInet(ip) == ip \in InetLiterals \cup {NullValue}

\* INSERT INTO audit_logs: document_id and user_id are foreign keys, and
\* ip_address is of type inet.  The callers do not read the result.
AuditInsertOk(docs, d, u, ip) ==
  /\ d \in DOMAIN docs
  /\ u \in DOMAIN profiles
  /\ ValidInet(ip)

AuditInsert(logs, n, docs, action, d, u, ip) ==
  IF AuditInsertOk(docs, d, u, ip)
    THEN [logs |-> logs \cup {[id |-> n + 1, action |-> action, document_id |-> d, user_id |-> u]},
          n |-> n + 1]
    ELSE [logs |-> logs, n |-> n]

(***************************************************************************)
(* The state a request works on, and what it leaves.                       *)
(***************************************************************************)
Store ==
  [documents |-> documents, document_access |-> document_access,
   audit_logs |-> audit_logs, bucket |-> bucket, disk |-> disk,
   nextDoc |-> nextDoc, nextAudit |-> nextAudit, nextUuid |-> nextUuid, now |-> now]

Commit(st) ==
  /\ documents' = st.documents
  /\ document_access' = st.document_access
  /\ audit_logs' = st.audit_logs
  /\ bucket' = st.bucket
  /\ disk' = st.disk
  /\ nextDoc' = st.nextDoc
  /\ nextAudit' = st.nextAudit
  /\ nextUuid' = st.nextUuid
  /\ now' = st.now
  /\ st.nextDoc <= MaxDocs
  /\ st.nextAudit <= MaxAudit
  /\ st.nextUuid <= MaxUuid
  /\ UNCHANGED <<profiles, pending, inserting, auth>>

Out(st, r) == [st |-> st, r |-> r]

WithAudit(st, action, d, u, ip) ==
  LET a == AuditInsert(st.audit_logs, st.nextAudit, st.documents, action, d, u, ip)
  IN  [st EXCEPT !.audit_logs = a.logs, !.nextAudit = a.n]

\* The audit insert at the end of a request that has succeeded: its result
\* is not read, and the response r is sent whatever it was.
Audited(st, action, d, u, ip, r) ==
  LET a == WithAudit(st, action, d, u, ip)
  IN  Out(a, IF a.nextAudit = st.nextAudit THEN [r EXCEPT !.failed = @ \cup {"audit"}] ELSE r)

WithDocument(st, row) ==
  [st EXCEPT !.documents = Put(st.documents, DocId(st.nextDoc + 1), row),
             !.nextDoc = st.nextDoc + 1]

(***************************************************************************)
(* Upload.                                                                 *)
(***************************************************************************)
\* The storage variant without the removal of the blob after a failed catalog
\* insert.
upload_storage_nocleanup(st, c, f, category, xff, fault) ==
  LET r           == R("upload", "upload-file-local/storage", c)
      storagePath == category \o "/" \o ToString(st.now) \o "_" \o f.name
      row         == [name |-> f.name, file_path |-> storagePath,
                      file_size |-> f.size, uploaded_by |-> c]
      stored      == [st EXCEPT !.bucket = Put(st.bucket, storagePath, f.body)]
      saved       == WithDocument(stored, row)
      id          == DocId(st.nextDoc + 1)
      ip          == IF xff # "" THEN xff ELSE "unknown"
  IN
  IF ~Authenticated(c) THEN Out(st, Err(r, 401, "unauthorized"))
  ELSE IF ~IsAdmin(c) THEN Out(st, Err(r, 403, "forbidden"))
  ELSE IF storagePath \in DOMAIN st.bucket \/ fault = "storage"
    THEN Out(st, Err(r, 500, "storage_failed"))
  ELSE IF fault = "db" THEN Out(stored, DbErr(r, 500, storagePath, TRUE))
  ELSE IF fault = "db_cleanup" THEN Out(stored, DbErr(r, 500, storagePath, FALSE))
  ELSE Audited(saved, "upload", id, c, ip,
           Ok([r EXCEPT !.doc = id, !.count = 1, !.total = 1]))

\* upload-file-local, the variant that writes to the storage bucket.
upload_storage(st, c, f, category, xff, fault) ==
  LET r           == R("upload", "upload-file-local/storage", c)
      storagePath == category \o "/" \o ToString(st.now) \o "_" \o f.name
      row         == [name |-> f.name, file_path |-> storagePath,
                      file_size |-> f.size, uploaded_by |-> c]
      stored      == [st EXCEPT !.bucket = Put(st.bucket, storagePath, f.body)]
      saved       == WithDocument(stored, row)
      id          == DocId(st.nextDoc + 1)
      ip          == IF xff # "" THEN xff ELSE "unknown"
  IN
  IF ~Authenticated(c) THEN Out(st, Err(r, 401, "unauthorized"))
  ELSE IF ~IsAdmin(c) THEN Out(st, Err(r, 403, "forbidden"))
  ELSE IF storagePath \in DOMAIN st.bucket \/ fault = "storage"
    THEN Out(st, Err(r, 500, "storage_failed"))
  ELSE IF fault = "db"
    THEN Out([st EXCEPT !.bucket = Drop(stored.bucket, {storagePath})],
             DbErr(r, 500, storagePath, TRUE))
  ELSE IF fault = "db_cleanup" THEN Out(stored, DbErr(r, 500, storagePath, FALSE))
  ELSE Audited(saved, "upload", id, c, ip,
           Ok([r EXCEPT !.doc = id, !.count = 1, !.total = 1]))

\* upload-file-local, the variant that writes under /var/www/uploads.
\* Deno.writeFile replaces a file that exists.
upload_local(st, c, f, xff, fault) ==
  LET r          == R("upload", "upload-file-local/local", c)
      uniqueName == ToString(st.now) \o "_" \o f.name
      filePath   == "/var/www/uploads" \o "/" \o uniqueName
      publicPath == "/uploads/" \o uniqueName
      row        == [name |-> f.name, file_path |-> publicPath,
                     file_size |-> f.size, uploaded_by |-> c]
      stored     == [st EXCEPT !.disk = Put(st.disk, filePath, f.body)]
      saved      == WithDocument(stored, row)
      id         == DocId(st.nextDoc + 1)
      ip         == IF xff # "" THEN xff ELSE "unknown"
  IN
  IF ~Authenticated(c) THEN Out(st, Err(r, 401, "unauthorized"))
  ELSE IF ~IsAdmin(c) THEN Out(st, Err(r, 403, "forbidden"))
  ELSE IF fault = "storage" THEN Out(st, Err(r, 500, "storage_failed"))
  ELSE IF fault = "db"
    THEN Out([st EXCEPT !.disk = Drop(stored.disk, {filePath})], DbErr(r, 500, filePath, TRUE))
  ELSE IF fault = "db_cleanup" THEN Out(stored, DbErr(r, 500, filePath, FALSE))
  ELSE Audited(saved, "upload", id, c, ip,
           Ok([r EXCEPT !.doc = id, !.count = 1, !.total = 1]))

\* The multipart variant (the function the browser invokes as
\* 'upload-document'): a random object name, every error a 400, and no
\* insert into audit_logs.
upload_multipart(st, c, f, name, fault) ==
  LET r        == R("upload", "upload-file-local/multipart", c)
      fileExt  == SplitPop(f.name, ".")
      fileName == "uuid" \o ToString(st.nextUuid + 1) \o "." \o fileExt
      filePath == "documents/" \o fileName
      row      == [name |-> name, file_path |-> filePath,
                   file_size |-> f.size, uploaded_by |-> c]
      drawn    == [st EXCEPT !.nextUuid = st.nextUuid + 1]
      stored   == [drawn EXCEPT !.bucket = Put(st.bucket, filePath, f.body)]
      saved    == WithDocument(stored, row)
      id       == DocId(st.nextDoc + 1)
  IN
  IF ~Authenticated(c) THEN Out(st, Err(r, 400, "unauthorized"))
  ELSE IF ~IsAdmin(c) THEN Out(st, Err(r, 400, "forbidden"))
  ELSE IF name = "" THEN Out(st, Err(r, 400, "name_required"))
  ELSE IF fault = "storage" THEN Out(drawn, Err(r, 400, "storage_failed"))
  ELSE IF fault = "db"
    THEN Out([drawn EXCEPT !.bucket = Drop(stored.bucket, {filePath})],
             DbErr(r, 400, filePath, TRUE))
  ELSE IF fault = "db_cleanup" THEN Out(stored, DbErr(r, 400, filePath, FALSE))
  ELSE Out(saved, Ok([r EXCEPT !.doc = id, !.count = 1, !.total = 1]))

UploadFaults == {"none", "storage", "db", "db_cleanup"}

UploadStorage(c, f, category, xff, fault) ==
  \E o \in {upload_storage(Store, c, f, category, xff, fault)} :
    Commit(o.st) /\ resp' = o.r

UploadLocal(c, f, xff, fault) ==
  \E o \in {upload_local(Store, c, f, xff, fault)} :
    Commit(o.st) /\ resp' = o.r

UploadMultipart(c, f, name, fault) ==
  \E o \in {upload_multipart(Store, c, f, name, fault)} :
    Commit(o.st) /\ resp' = o.r

(***************************************************************************)
(* Upload from the browser.                                                *)
(***************************************************************************)
\* What one pass of the loop of uploadFiles leaves: the state, whether the
\* file was counted, the catalog row's id, and the toast's error.
Pass(st, done, doc, error) ==
  [st |-> st, done |-> done, doc |-> doc, error |-> error, failed |-> {}, path |-> ""]

\* The loop pass with storage and catalog policies that admit every
\* authenticated user.
uploadFiles_direct_one_open(st, c, f, selectedFolder, fault) ==
  LET storagePath == selectedFolder \o "/" \o ToString(st.now) \o "_" \o f.name
      row         == [name |-> f.name, file_path |-> storagePath,
                      file_size |-> f.size, uploaded_by |-> c]
      stored      == [st EXCEPT !.bucket = Put(st.bucket, storagePath, f.body)]
      saved       == WithDocument(stored, row)
      id          == DocId(st.nextDoc + 1)
  IN
  IF f.size > maxFileSize THEN Pass(st, 0, NoDoc, "too_large")
  ELSE IF storagePath \in DOMAIN st.bucket \/ fault = "storage"
    THEN Pass(st, 0, NoDoc, "storage_failed")
  ELSE LET a == Audited(saved, "upload", id, c, "unknown", NoResp)
       IN  [Pass(a.st, 1, id, "none") EXCEPT !.failed = a.r.failed]

\* One pass of the loop of FileDropZone.uploadFiles that writes to storage
\* and the catalog through the browser's client: the policies of
\* storage.objects and public.documents admit an admin only, and the audit
\* row carries ip_address 'unknown'.
uploadFiles_direct_one(st, c, f, selectedFolder, fault) ==
  LET storagePath == selectedFolder \o "/" \o ToString(st.now) \o "_" \o f.name
      row         == [name |-> f.name, file_path |-> storagePath,
                      file_size |-> f.size, uploaded_by |-> c]
      stored      == [st EXCEPT !.bucket = Put(st.bucket, storagePath, f.body)]
      saved       == WithDocument(stored, row)
      id          == DocId(st.nextDoc + 1)
  IN
  IF f.size > maxFileSize THEN Pass(st, 0, NoDoc, "too_large")
  ELSE IF ~IsAdmin(c) \/ storagePath \in DOMAIN st.bucket \/ fault = "storage"
    THEN Pass(st, 0, NoDoc, "storage_failed")
  ELSE IF fault = "db"
    THEN [Pass([st EXCEPT !.bucket = Drop(stored.bucket, {storagePath})], 0, NoDoc, "db_failed")
            EXCEPT !.failed = {"db"}, !.path = storagePath]
  ELSE IF fault = "db_cleanup"
    THEN [Pass(stored, 0, NoDoc, "db_failed")
            EXCEPT !.failed = {"db", "cleanup"}, !.path = storagePath]
  ELSE LET a == Audited(saved, "upload", id, c, "unknown", NoResp)
       IN  [Pass(a.st, 1, id, "none") EXCEPT !.failed = a.r.failed]

\* One pass of the loop of the FileDropZone.uploadFiles that invokes the
\* 'upload-document' function with the file and its name.
uploadFiles_invoke_one(st, c, f, selectedFolder, fault) ==
  LET o == upload_multipart(st, c, f, f.name, fault)
  IN  [st |-> o.st, done |-> IF o.r.status = 200 THEN 1 ELSE 0, doc |-> o.r.doc,
       error |-> o.r.error, failed |-> o.r.failed, path |-> o.r.path]

\* The loop ending at the first file that fails.
RECURSIVE uploadFiles_loop_abort(_, _, _, _, _, _, _, _, _)
uploadFiles_loop_abort(direct, st, c, files, i, selectedFolder, adv, fault, faultAt) ==
  IF i > Len(files)
    THEN [st |-> st, count |-> 0, doc |-> NoDoc, error |-> "none", failed |-> {}, path |-> "",
          tried |-> 0]
    ELSE
      LET flt  == IF i = faultAt THEN fault ELSE "none"
          Then(one) ==
            LET st2 == IF i < Len(files) THEN [one.st EXCEPT !.now = one.st.now + adv]
                                         ELSE one.st
                Join(rest) ==
                  [st    |-> rest.st,
                   count |-> one.done + rest.count,
                   doc   |-> IF rest.doc # NoDoc THEN rest.doc ELSE one.doc,
                   error |-> IF rest.error # "none" THEN rest.error ELSE one.error,
                   failed |-> one.failed \cup rest.failed,
                   path  |-> IF rest.path # "" THEN rest.path ELSE one.path,
                   tried |-> 1 + rest.tried]
            IN  CHOOSE r \in {Join(rest) : rest \in
                                {uploadFiles_loop_abort(direct, st2, c, files,
                                                        IF one.done = 1 THEN i + 1
                                                                        ELSE Len(files) + 1,
                                                        selectedFolder, adv, fault, faultAt)}} : TRUE
      IN  CHOOSE r \in {Then(one) : one \in
                          {IF direct
                             THEN uploadFiles_direct_one(st, c, files[i], selectedFolder, flt)
                             ELSE uploadFiles_invoke_one(st, c, files[i], selectedFolder, flt)}} : TRUE

\* The loop over the submitted files, in list order.  The clock moves on by
\* adv between two files; the fault, if any, hits the file at faultAt.
RECURSIVE uploadFiles_loop(_, _, _, _, _, _, _, _, _)
uploadFiles_loop(direct, st, c, files, i, selectedFolder, adv, fault, faultAt) ==
  IF i > Len(files)
    THEN [st |-> st, count |-> 0, doc |-> NoDoc, error |-> "none", failed |-> {}, path |-> "",
          tried |-> 0]
    ELSE
      LET flt  == IF i = faultAt THEN fault ELSE "none"
          Then(one) ==
            LET st2 == IF i < Len(files) THEN [one.st EXCEPT !.now = one.st.now + adv]
                                         ELSE one.st
                Join(rest) ==
                  [st    |-> rest.st,
                   count |-> one.done + rest.count,
                   doc   |-> IF rest.doc # NoDoc THEN rest.doc ELSE one.doc,
                   error |-> IF rest.error # "none" THEN rest.error ELSE one.error,
                   failed |-> one.failed \cup rest.failed,
                   path  |-> IF rest.path # "" THEN rest.path ELSE one.path,
                   tried |-> 1 + rest.tried]
            IN  CHOOSE r \in {Join(rest) : rest \in
                                {uploadFiles_loop(direct, st2, c, files, i + 1, selectedFolder,
                                                  adv, fault, faultAt)}} : TRUE
      IN  CHOOSE r \in {Then(one) : one \in
                          {IF direct
                             THEN uploadFiles_direct_one(st, c, files[i], selectedFolder, flt)
                             ELSE uploadFiles_invoke_one(st, c, files[i], selectedFolder, flt)}} : TRUE

\* FileDropZone.uploadFiles, the variant that writes to storage directly.
uploadFiles_direct(c, files, selectedFolder, adv, fault, faultAt) ==
  LET r == [R("upload", "FileDropZone.uploadFiles/direct", c) EXCEPT
              !.total = Len(files), !.files = files]
  IN
  /\ Len(files) > 0
  /\ IF ~Authenticated(c)
       THEN Commit(Store) /\ resp' = Err(r, 401, "session_required")
       ELSE \E o \in {uploadFiles_loop(TRUE, Store, c, files, 1, selectedFolder, adv, fault, faultAt)} :
            /\ o.st.now <= MaxClock
            /\ Commit(o.st)
            /\ resp' = IF o.count > 0
                         THEN Ok([r EXCEPT !.count = o.count, !.doc = o.doc, !.error = o.error,
                                           !.failed = o.failed, !.path = o.path,
                                           !.tried = o.tried])
                         ELSE Err([r EXCEPT !.failed = o.failed, !.path = o.path,
                                            !.tried = o.tried], 500, o.error)

\* FileDropZone.uploadFiles, the variant that invokes 'upload-document'.
uploadFiles_invoke(c, files, selectedFolder, fault, faultAt) ==
  LET r == [R("upload", "FileDropZone.uploadFiles/invoke", c) EXCEPT
              !.total = Len(files), !.files = files]
  IN
  /\ Len(files) > 0
  /\ \E o \in {uploadFiles_loop(FALSE, Store, c, files, 1, selectedFolder, 0, fault, faultAt)} :
       /\ Commit(o.st)
       /\ resp' = IF o.count > 0
                    THEN Ok([r EXCEPT !.count = o.count, !.doc = o.doc, !.error = o.error,
                                      !.failed = o.failed, !.path = o.path, !.tried = o.tried])
                    ELSE Err([r EXCEPT !.failed = o.failed, !.path = o.path, !.tried = o.tried],
                             400, o.error)

\* DocumentManagement.handleUpload: the selected file and the form's name,
\* sent to 'upload-document'.
handleUpload(c, f, name, fault) ==
  LET o == upload_multipart(Store, c, f, name, fault)
  IN  /\ Commit(o.st)
      /\ resp' = [o.r EXCEPT !.handler = "DocumentManagement.handleUpload"]

(***************************************************************************)
(* Download.                                                               *)
(***************************************************************************)
HasGrant(acc, d, u) == \E g \in acc : g.document_id = d /\ g.user_id = u

\* download-document that turns away a caller whose profile is not active.
download_document_active(st, c, documentId, xff) ==
  LET r         == [R("download", "download-document", c) EXCEPT !.doc = documentId]
      document  == st.documents[documentId]
      isAdmin   == IsAdmin(c)
      hasAccess == IF isAdmin THEN TRUE ELSE HasGrant(st.document_access, documentId, c)
      ip        == IF xff # "" THEN xff ELSE NullValue
  IN
  IF ~Authenticated(c) THEN Out(st, Err(r, 400, "unauthorized"))
  ELSE IF ~profiles[c].is_active THEN Out(st, Err(r, 400, "inactive"))
  ELSE IF documentId = NoDoc THEN Out(st, Err(r, 400, "id_required"))
  ELSE IF documentId \notin DOMAIN st.documents THEN Out(st, Err(r, 400, "not_found"))
  ELSE IF ~hasAccess THEN Out(st, Err(r, 400, "forbidden"))
  ELSE IF document.file_path \notin DOMAIN st.bucket
    THEN Out(st, Err(r, 400, "download_failed"))
  ELSE Audited(st, "download", documentId, c, ip,
           Ok([r EXCEPT !.bytes = st.bucket[document.file_path]]))

\* download-document with an audit insert whose error is thrown.
download_document_strict(st, c, documentId, xff) ==
  LET r         == [R("download", "download-document", c) EXCEPT !.doc = documentId]
      document  == st.documents[documentId]
      isAdmin   == IsAdmin(c)
      hasAccess == IF isAdmin THEN TRUE ELSE HasGrant(st.document_access, documentId, c)
      ip        == IF xff # "" THEN xff ELSE NullValue
      logged    == Audited(st, "download", documentId, c, ip,
                           Ok([r EXCEPT !.bytes = st.bucket[document.file_path]]))
  IN
  IF ~Authenticated(c) THEN Out(st, Err(r, 400, "unauthorized"))
  ELSE IF documentId = NoDoc THEN Out(st, Err(r, 400, "id_required"))
  ELSE IF documentId \notin DOMAIN st.documents THEN Out(st, Err(r, 400, "not_found"))
  ELSE IF ~hasAccess THEN Out(st, Err(r, 400, "forbidden"))
  ELSE IF document.file_path \notin DOMAIN st.bucket
    THEN Out(st, Err(r, 400, "download_failed"))
  ELSE IF "audit" \in logged.r.failed
    THEN Out(st, Err([r EXCEPT !.failed = {"audit"}], 400, "audit_failed"))
  ELSE logged

\* download-document: the id comes in the JSON body; every error is thrown
\* and answered with status 400.
download_document(st, c, documentId, xff) ==
  LET r         == [R("download", "download-document", c) EXCEPT !.doc = documentId]
      document  == st.documents[documentId]
      isAdmin   == IsAdmin(c)
      hasAccess == IF isAdmin THEN TRUE ELSE HasGrant(st.document_access, documentId, c)
      ip        == IF xff # "" THEN xff ELSE NullValue
  IN
  IF ~Authenticated(c) THEN Out(st, Err(r, 400, "unauthorized"))
  ELSE IF documentId = NoDoc THEN Out(st, Err(r, 400, "id_required"))
  ELSE IF documentId \notin DOMAIN st.documents THEN Out(st, Err(r, 400, "not_found"))
  ELSE IF ~hasAccess THEN Out(st, Err(r, 400, "forbidden"))
  ELSE IF document.file_path \notin DOMAIN st.bucket
    THEN Out(st, Err(r, 400, "download_failed"))
  ELSE Audited(st, "download", documentId, c, ip,
           Ok([r EXCEPT !.bytes = st.bucket[document.file_path]]))

\* The file download-file-local reads for a catalog row: ./uploads and the
\* row's file_path without its first '/uploads', under the working directory.
LocalPath(file_path) ==
  LET actualFilePath == "./uploads" \o Replace(file_path, "/uploads", "")
  IN  Cwd \o SubSeq(actualFilePath, 2, Len(actualFilePath))

\* download-file-local: the id is the last segment of the URL's path; the
\* file is read from ./uploads; no profile and no grant is read.
download_file_local(st, c, pathname, xff) ==
  LET documentId     == SplitPop(pathname, "/")
      r              == [R("download", "download-file-local", c) EXCEPT !.doc = documentId]
      document       == st.documents[documentId]
      resolved       == LocalPath(document.file_path)
      ip             == IF xff # "" THEN xff ELSE "unknown"
  IN
  IF ~Authenticated(c) THEN Out(st, Err(r, 401, "unauthorized"))
  ELSE IF documentId = "" THEN Out(st, Err(r, 400, "id_required"))
  ELSE IF documentId \notin DOMAIN st.documents THEN Out(st, Err(r, 404, "not_found"))
  ELSE IF resolved \notin DOMAIN st.disk THEN Out(st, Err(r, 404, "file_not_found"))
  ELSE Audited(st, "download", documentId, c, ip,
           Ok([r EXCEPT !.bytes = st.disk[resolved]]))

DownloadDocument(c, documentId, xff) ==
  \E o \in {download_document(Store, c, documentId, xff)} :
    Commit(o.st) /\ resp' = o.r

DownloadFileLocal(c, pathname, xff) ==
  \E o \in {download_file_local(Store, c, pathname, xff)} :
    Commit(o.st) /\ resp' = o.r

\* INSERT INTO audit_logs through the browser's client: the policy asks for
\* user_id = auth.uid().
ClientAuditInsert(st, c, action, d, ip, r) ==
  IF Authenticated(c) THEN Audited(st, action, d, c, ip, r) ELSE Out(st, r)

\* DocumentManagement.handleDownload, the variant that invokes
\* download-document and then logs the download itself, with
\* window.location.hostname as ip_address.
handleDownload_invoke_log(c, d, xff, hostname) ==
  LET o == download_document(Store, c, d, xff)
      r == [o.r EXCEPT !.handler = "DocumentManagement.handleDownload/invoke", !.asked = d]
  IN
  IF o.r.status # 200
    THEN Commit(o.st) /\ resp' = r
    ELSE \E a \in {ClientAuditInsert(o.st, c, "download", d, hostname, r)} :
           Commit(a.st) /\ resp' = a.r

\* DocumentViewer.handleDownload: invokes download-document.
handleDownload_viewer(c, d, xff) ==
  LET o == download_document(Store, c, d, xff)
      r == [o.r EXCEPT !.handler = "DocumentViewer.handleDownload", !.asked = d]
  IN  Commit(o.st) /\ resp' = r

\* DocumentManagement.handleDownload, the variant that posts {documentId: d}
\* to the URL of download-file-local; the URL carries no id.
handleDownload_fetch(c, d, xff) ==
  LET o == download_file_local(Store, c, InvokePath("download-file-local"), xff)
      r == [o.r EXCEPT !.handler = "DocumentManagement.handleDownload/fetch", !.asked = d]
  IN
  IF ~Authenticated(c)
    THEN Commit(Store) /\ resp' = Err(r, 401, "session_required")
    ELSE Commit(o.st) /\ resp' = r

\* The policies for SELECT on public.documents: "Admins can manage all
\* documents" and "Authenticated users can view all documents" (which
\* replaced "Users can view assigned documents").
documents_select(c, d) == IsAdmin(c) \/ Authenticated(c)

\* The policies for SELECT on storage.objects of bucket 'documents':
\* "Users can view assigned documents" and "Authenticated users can download
\* documents".
objects_select(c, name) ==
  \/ IsAdmin(c)
  \/ \E d \in DOMAIN documents :
        documents[d].file_path = name /\ HasGrant(document_access, d, c)
  \/ Authenticated(c)

\* DocumentViewer.fetchDocuments: the catalog rows the browser's client may
\* select.
fetchDocuments(c) ==
  /\ resp' = Ok([R("fetchDocuments", "DocumentViewer.fetchDocuments", c) EXCEPT
                    !.sel = {d \in DOMAIN documents : documents_select(c, d)}])
  /\ UNCHANGED <<profiles, documents, document_access, audit_logs, bucket, disk,
                 nextDoc, nextAudit, nextUuid, now, pending, inserting, auth>>

\* Dashboard.handleDownload: a signed URL for the object named by the
\* document's id, then an audit row with ip_address 'unknown'.
handleDownload_signed(c, d) ==
  LET r == [R("download", "Dashboard.handleDownload", c) EXCEPT !.doc = d]
  IN
  IF d \notin DOMAIN bucket \/ ~objects_select(c, d)
    THEN Commit(Store) /\ resp' = Err(r, 400, "download_failed")
    ELSE \E a \in {ClientAuditInsert(Store, c, "download", d, "unknown",
                                       Ok([r EXCEPT !.bytes = bucket[d]]))} :
           Commit(a.st) /\ resp' = a.r

(***************************************************************************)
(* Delete.                                                                 *)
(***************************************************************************)
\* DELETE FROM documents WHERE id = d, with the ON DELETE CASCADE of
\* document_access.document_id and audit_logs.document_id.
DeleteDocumentRow(st, d) ==
  [st EXCEPT !.documents = Drop(st.documents, {d}),
             !.document_access = {g \in st.document_access : g.document_id # d},
             !.audit_logs = {a \in st.audit_logs : a.document_id # d}]

\* delete-file-local without the read of the caller's role.
delete_file_local_open(st, c, pathname, xff, fault) ==
  LET documentId     == SplitPop(pathname, "/")
      r              == [R("delete", "delete-file-local", c) EXCEPT !.doc = documentId]
      document       == st.documents[documentId]
      actualFilePath == "/var/www" \o document.file_path
      removed        == [st EXCEPT !.disk = Drop(st.disk, {actualFilePath})]
      deleted        == DeleteDocumentRow(removed, documentId)
      ip             == IF xff # "" THEN xff ELSE "unknown"
  IN
  IF ~Authenticated(c) THEN Out(st, Err(r, 401, "unauthorized"))
  ELSE IF documentId = "" THEN Out(st, Err(r, 400, "id_required"))
  ELSE IF documentId \notin DOMAIN st.documents THEN Out(st, Err(r, 404, "not_found"))
  ELSE IF fault = "db" THEN Out(removed, Err(r, 500, "db_failed"))
  ELSE Audited(deleted, "delete", documentId, c, ip, Ok(r))

\* delete-file-local: admin only; the id is the last segment of the URL's
\* path; a failed file removal is logged and passed over; the audit row is
\* inserted after the catalog row is gone.
delete_file_local(st, c, pathname, xff, fault) ==
  LET documentId     == SplitPop(pathname, "/")
      r              == [R("delete", "delete-file-local", c) EXCEPT !.doc = documentId]
      document       == st.documents[documentId]
      actualFilePath == "/var/www" \o document.file_path
      removed        == [st EXCEPT !.disk = Drop(st.disk, {actualFilePath})]
      deleted        == DeleteDocumentRow(removed, documentId)
      ip             == IF xff # "" THEN xff ELSE "unknown"
  IN
  IF ~Authenticated(c) THEN Out(st, Err(r, 401, "unauthorized"))
  ELSE IF ~IsAdmin(c) THEN Out(st, Err(r, 403, "forbidden"))
  ELSE IF documentId = "" THEN Out(st, Err(r, 400, "id_required"))
  ELSE IF documentId \notin DOMAIN st.documents THEN Out(st, Err(r, 404, "not_found"))
  ELSE IF fault = "db" THEN Out(removed, Err(r, 500, "db_failed"))
  ELSE Audited(deleted, "delete", documentId, c, ip, Ok(r))

DeleteFileLocal(c, pathname, xff, fault) ==
  \E o \in {delete_file_local(Store, c, pathname, xff, fault)} :
    Commit(o.st) /\ resp' = o.r

\* DocumentManagement.handleDelete: invokes delete-file-local with
\* {documentId: d} in the body; the URL carries no id.
handleDelete(c, d, xff) ==
  LET o == delete_file_local(Store, c, InvokePath("delete-file-local"), xff, "none")
  IN  /\ Commit(o.st)
      /\ resp' = [o.r EXCEPT !.handler = "DocumentManagement.handleDelete", !.asked = d]

\* Time passes.
Tick ==
  /\ now < MaxClock
  /\ now' = now + 1
  /\ UNCHANGED <<profiles, documents, document_access, audit_logs, bucket, disk,
                 nextDoc, nextAudit, nextUuid, resp, pending, inserting, auth>>

(***************************************************************************)
(* Specifications.  Each one runs a part of the system's operations, so    *)
(* every behaviour of each is a behaviour of the whole system.             *)
(***************************************************************************)
IssuedDocIds == {DocId(k) : k \in 1 .. nextDoc}
FileLists    == UNION {[1 .. n -> Files] : n \in 1 .. MaxFiles}
PathsOf(fn)  == {InvokePath(fn)} \cup {InvokePath(fn) \o "/" \o d : d \in DocIds}
Members      == {"u1", "u2"}
Requesters   == Members \cup {Anon}
FitFile      == [name |-> "a.pdf", size |-> maxFileSize, body |-> "x"]
SizedFiles   == {f \in Files : f.body # "y"}
SizedFileLists == UNION {[1 .. n -> SizedFiles] : n \in 1 .. MaxFiles}

\* Profiles: sign-up, provisioning and activation, for three identities.
NextUsers ==
  \/ \E u \in Users : signUp(u)
  \/ \E c \in Callers, u \in Users, mailed \in BOOLEAN : createUser(c, u, mailed)
  \/ \E c \in Callers, u \in Users, b \in BOOLEAN : toggleUserStatus(c, u, b)

SpecUsers == Init /\ [][NextUsers]_vars

\* Access grants: documents come and go, and grants are edited, with the
\* delete or the insert of an edit failing or not.
NextAccess ==
  \/ \E u \in Members : (u = "u1" \/ HasProfile("u1")) /\ signUp(u)
  \/ \E c \in Members : UploadLocal(c, FitFile, "", "none")
  \/ \E c \in Members, d \in DocIds :
        DeleteFileLocal(c, InvokePath("delete-file-local") \o "/" \o d, "", "none")
  \/ \E c \in Requesters, u \in Members, S \in SUBSET IssuedDocIds,
        fault \in {"none", "delete", "insert"} : saveDocumentAccess(c, u, S, fault)

SpecAccess == Init /\ [][NextAccess]_vars

\* Download: documents in both stores, grants, and every download path.
\* u1 is the first to sign up (the identities are interchangeable).
NextDownload ==
  \/ \E u \in Members : (u = "u1" \/ HasProfile("u1")) /\ signUp(u)
  \/ \E c \in Members : UploadStorage(c, FitFile, "Financials", "", "none")
  \/ \E c \in Members : UploadLocal(c, FitFile, "", "none")
  \/ \E c \in Members, u \in Members, S \in SUBSET IssuedDocIds :
        saveDocumentAccess(c, u, S, "none")
  \/ \E c \in Members, d \in DocIds, xff \in XffValues :
        DownloadDocument(c, d, xff)
  \/ \E c \in Members, p \in PathsOf("download-file-local"), xff \in XffValues :
        DownloadFileLocal(c, p, xff)
  \/ \E c \in Members, d \in IssuedDocIds, xff \in XffValues, h \in Hostnames :
        handleDownload_invoke_log(c, d, xff, h)
  \/ \E c \in Members, d \in IssuedDocIds, xff \in XffValues :
        handleDownload_viewer(c, d, xff)
  \/ \E c \in Members, d \in IssuedDocIds, xff \in XffValues : handleDownload_fetch(c, d, xff)

SpecDownload == Init /\ [][NextDownload]_vars

\* Delete: documents in both stores, grants, downloads and deletes.
NextDelete ==
  \/ \E u \in Members : (u = "u1" \/ HasProfile("u1")) /\ signUp(u)
  \/ \E c \in Members : createUser(c, "u2", TRUE)
  \/ \E c \in Members : UploadStorage(c, FitFile, "Financials", "", "none")
  \/ \E c \in Members, xff \in XffValues : UploadLocal(c, FitFile, xff, "none")
  \/ \E c \in Members, S \in SUBSET IssuedDocIds : saveDocumentAccess(c, "u2", S, "none")
  \/ \E c \in Members, d \in DocIds : DownloadDocument(c, d, "10.0.0.7")
  \/ \E c \in Members, p \in PathsOf("download-file-local"), xff \in XffValues :
        DownloadFileLocal(c, p, xff)
  \/ \E c \in Members, p \in PathsOf("delete-file-local") :
        DeleteFileLocal(c, p, "10.0.0.7", "none")
  \/ \E c \in Members, d \in IssuedDocIds : handleDelete(c, d, "10.0.0.7")

SpecDelete == Init /\ [][NextDelete]_vars

\* Upload: every upload path, with files at and over the ceiling; the
\* requests to the handlers carry an x-forwarded-for address.
NextUpload ==
  \/ \E u \in Members : (u = "u1" \/ HasProfile("u1")) /\ signUp(u)
  \/ \E c \in Members, f \in SizedFiles : UploadStorage(c, f, "Financials", "10.0.0.7", "none")
  \/ \E c \in Members, f \in SizedFiles : UploadLocal(c, f, "10.0.0.7", "none")
  \/ \E c \in Members, f \in SizedFiles, name \in {"a.pdf", ""} :
        UploadMultipart(c, f, name, "none")
  \/ \E c \in Requesters, files \in SizedFileLists, adv \in {0, 1} :
        uploadFiles_direct(c, files, "Financials", adv, "none", 1)
  \/ \E c \in Members, files \in SizedFileLists :
        uploadFiles_invoke(c, files, "Financials", "none", 1)
  \/ \E c \in Members, f \in SizedFiles : handleUpload(c, f, "a.pdf", "none")
  \/ Tick

SpecUpload == Init /\ [][NextUpload]_vars

\* Reads through the browser's client, under the row-level policies.
NextPolicies ==
  \/ \E u \in Members : (u = "u1" \/ HasProfile("u1")) /\ signUp(u)
  \/ \E c \in Members : UploadStorage(c, FitFile, "Financials", "", "none")
  \/ \E c \in Members, u \in Members, S \in SUBSET IssuedDocIds :
        saveDocumentAccess(c, u, S, "none")
  \/ \E c \in Requesters : fetchDocuments(c)
  \/ \E c \in Requesters, d \in IssuedDocIds : handleDownload_signed(c, d)
  \/ Tick

SpecPolicies == Init /\ [][NextPolicies]_vars

\* Two sessions of admins that each edit the grants of u2 once, their
\* requests interleaved.
NextConcurrentAccess ==
  \/ \E u \in Members : (u = "u1" \/ HasProfile("u1")) /\ signUp(u)
  \/ \E c \in Members : UploadLocal(c, FitFile, "", "none")
  \/ \E s \in Sessions, c \in Members, S \in SUBSET IssuedDocIds :
        saveDocumentAccess_delete(s, c, "u2", S)
  \/ \E s \in Sessions : saveDocumentAccess_insert(s)

SpecConcurrentAccess == Init /\ [][NextConcurrentAccess]_vars

\* Sign-ups whose profile inserts overlap.
NextConcurrentSignUp ==
  \/ \E u \in Users : handle_new_user_trigger(u)
  \/ \E u \in Users : handle_new_user_commit(u)
  \/ \E c \in Users, u \in Users, b \in BOOLEAN : toggleUserStatus(c, u, b)

SpecConcurrentSignUp == Init /\ [][NextConcurrentSignUp]_vars

\* Failing steps, in the requests of the first user (the admin): uploads whose
\* catalog insert fails, with the removal of the blob working or not, and
\* deletes whose catalog delete fails.
DbFaults == {"none", "db", "db_cleanup"}

NextFaults ==
  \/ signUp("u1")
  \/ \E fault \in DbFaults : UploadStorage("u1", FitFile, "Financials", "10.0.0.7", fault)
  \/ \E fault \in DbFaults : UploadLocal("u1", FitFile, "10.0.0.7", fault)
  \/ \E fault \in DbFaults : UploadMultipart("u1", FitFile, "a.pdf", fault)
  \/ \E fault \in DbFaults : uploadFiles_direct("u1", <<FitFile>>, "Financials", 0, fault, 1)
  \/ \E p \in PathsOf("delete-file-local"), fault \in {"none", "db"} :
        DeleteFileLocal("u1", p, "10.0.0.7", fault)
  \/ Tick

SpecFaults == Init /\ [][NextFaults]_vars

\* The browser's upload of a list of files that fit, with a step of one file
\* failing or not.
FitFiles     == {f \in Files : f.size <= maxFileSize}
FitFileLists == UNION {[1 .. n -> FitFiles] : n \in 1 .. MaxFiles}

NextUploadFiles ==
  \/ \E u \in Members : (u = "u1" \/ HasProfile("u1")) /\ signUp(u)
  \/ \E c \in Members, files \in FitFileLists, adv \in {0, 1},
        fault \in {"none", "storage", "db"}, faultAt \in 1 .. MaxFiles :
        uploadFiles_direct(c, files, "Financials", adv, fault, faultAt)
  \/ \E c \in Members, files \in FitFileLists,
        fault \in {"none", "storage", "db"}, faultAt \in 1 .. MaxFiles :
        uploadFiles_invoke(c, files, "Financials", fault, faultAt)
  \/ Tick

SpecUploadFiles == Init /\ [][NextUploadFiles]_vars

\* Requests whose audit insert or welcome e-mail fails: an x-forwarded-for
\* header that is absent or lists two addresses, and a send that fails.
XffLists == {"10.0.0.7", "10.0.0.7, 10.0.0.1"}

NextBestEffort ==
  \/ signUp("u1")
  \/ \E mailed \in BOOLEAN : createUser("u1", "u2", mailed)
  \/ \E xff \in XffValues : UploadStorage("u1", FitFile, "Financials", xff, "none")
  \/ \E xff \in XffValues : UploadLocal("u1", FitFile, xff, "none")
  \/ \E c \in Members, d \in IssuedDocIds, xff \in XffLists : DownloadDocument(c, d, xff)
  \/ \E c \in Members, d \in IssuedDocIds, xff \in XffValues :
        DownloadFileLocal(c, InvokePath("download-file-local") \o "/" \o d, xff)
  \/ \E d \in IssuedDocIds, xff \in XffValues :
        DeleteFileLocal("u1", InvokePath("delete-file-local") \o "/" \o d, xff, "none")
  \/ \E f \in FitFiles : uploadFiles_direct("u1", <<f>>, "Financials", 0, "none", 1)
  \/ Tick

SpecBestEffort == Init /\ [][NextBestEffort]_vars

\* Activation: accounts are activated and deactivated while documents are
\* granted and downloaded through download-document.
NextActive ==
  \/ \E u \in Members : (u = "u1" \/ HasProfile("u1")) /\ signUp(u)
  \/ UploadStorage("u1", FitFile, "Financials", "10.0.0.7", "none")
  \/ \E u \in Members, S \in SUBSET IssuedDocIds : saveDocumentAccess("u1", u, S, "none")
  \/ \E c \in Members, u \in Members, b \in BOOLEAN : toggleUserStatus(c, u, b)
  \/ \E c \in Members, d \in IssuedDocIds \cup {NoDoc}, xff \in {"", "10.0.0.7"} :
        DownloadDocument(c, d, xff)
  \/ Tick
SpecActive == Init /\ [][NextActive]_vars

\* The browser session: accounts are created and activated while one browser
\* signs in, reloads and signs out, its callbacks running in any order.
NextSession ==
  \/ \E u \in Members : (u = "u1" \/ HasProfile("u1")) /\ signUp(u)
  \/ \E u \in Members, b \in BOOLEAN : toggleUserStatus("u1", u, b)
  \/ \E email \in Members, accepted \in BOOLEAN : signIn(email, accepted)
  \/ \E ok \in BOOLEAN : signIn_fetchProfile(ok)
  \/ signIn_signOut
  \/ \E f \in auth.fetches : onAuthStateChange_timeout(f)
  \/ \E f \in auth.fetches, ok \in BOOLEAN : onAuthStateChange_fetched(f, ok)
  \/ getSession
  \/ signOut
SpecSession == Init /\ [][NextSession]_vars

\* The whole system.
Next ==
  \/ NextUsers \/ NextAccess \/ NextDownload \/ NextDelete \/ NextUpload
  \/ NextPolicies \/ NextConcurrentAccess \/ NextConcurrentSignUp \/ NextFaults
  \/ NextUploadFiles \/ NextBestEffort \/ NextActive \/ NextSession

Spec == Init /\ [][Next]_vars

(***************************************************************************)
(* Properties.                                                             *)
(***************************************************************************)
Admin   == [role |-> "admin", is_active |-> TRUE]
Pending == [role |-> "user", is_active |-> FALSE]

SaveSetsExactlySelection ==
  [][(/\ resp'.op = "saveDocumentAccess" /\ resp'.status = 200
      /\ resp'.failed = {} /\ IsAdmin(resp'.caller))
     => /\ GrantsOf(document_access', resp'.user) = resp'.sel
        /\ \A v \in Users \ {resp'.user} :
              {g \in document_access' : g.user_id = v} = {g \in document_access : g.user_id = v}]_vars

\* An admin's edit has replaced a non-empty grant set of u2 by another one.
SaveSetsExactlySelectionWitness ==
  /\ resp.op = "saveDocumentAccess" /\ resp.status = 200 /\ resp.failed = {}
  /\ IsAdmin(resp.caller) /\ resp.user = "u2"
  /\ resp.sel = {DocId(2)} /\ GrantsOf(document_access, "u2") = {DocId(2)}
  /\ \E g \in document_access : g.user_id = "u1"

Allowed(c, d) == IsAdmin(c) \/ HasGrant(document_access, d, c)
ServerDownload ==
  resp.op = "download" /\ resp.handler \in {"download-document", "download-file-local"}
\* The blob of document d is in the store the handler reads.
Served(handler, d) ==
  IF handler \in {"download-file-local", "DocumentManagement.handleDownload/fetch"}
    THEN LocalPath(documents[d].file_path) \in DOMAIN disk
    ELSE documents[d].file_path \in DOMAIN bucket

\* C1: on every server-side download handler, a download of a document that
\* has a catalog row (and whose blob is in the handler's store), requested by
\* an authenticated subject, returns the bytes if and only if the subject is an
\* admin or holds a grant for the document.
DownloadPermittedIffAdminOrGrant ==
  (/\ ServerDownload /\ Authenticated(resp.caller)
   /\ resp.doc \in DOMAIN documents /\ Served(resp.handler, resp.doc))
    => ((resp.status = 200 /\ resp.bytes # NoBytes) <=> Allowed(resp.caller, resp.doc))

\* C2: a download requested by a non-admin subject that holds no grant for
\* the document (whose blob is in the handler's store) fails as forbidden,
\* returns no bytes and leaves the audit log as it was.
UngrantedDownloadRefused ==
  [][(/\ resp'.op = "download" /\ Authenticated(resp'.caller)
      /\ resp'.doc \in DOMAIN documents /\ Served(resp'.handler, resp'.doc)
      /\ ~IsAdmin(resp'.caller) /\ ~HasGrant(document_access, resp'.doc, resp'.caller))
     => /\ resp'.error = "forbidden" /\ resp'.status # 200
        /\ resp'.bytes = NoBytes
        /\ audit_logs' = audit_logs]_vars

\* C4: every successful download adds exactly one audit row, tagged
\* download, with the document's id and the requesting user's id.
DownloadAddsOneAuditRow ==
  [][(resp'.op = "download" /\ resp'.status = 200)
     => /\ audit_logs \subseteq audit_logs'
        /\ Cardinality(audit_logs' \ audit_logs) = 1
        /\ \A a \in audit_logs' \ audit_logs :
              /\ a.action = "download"
              /\ a.document_id = resp'.doc
              /\ a.user_id = resp'.caller]_vars

\* C5: every successful upload, through any upload path, adds exactly one
\* audit row tagged upload for each catalog row it creates, with that row's
\* id, and no other audit row.
UploadAddsOneAuditRow ==
  [][(resp'.op = "upload" /\ resp'.status = 200)
     => LET created == (DOMAIN documents') \ (DOMAIN documents)
            added   == audit_logs' \ audit_logs
        IN  /\ created # {}
            /\ audit_logs \subseteq audit_logs'
            /\ \A a \in added : a.action = "upload" /\ a.document_id \in created
            /\ \A d \in created : Cardinality({a \in added : a.document_id = d}) = 1]_vars

\* C6: every successful delete adds exactly one audit row, tagged delete,
\* with the deleted document's id, and the row is in the audit log when the
\* delete has completed.
DeleteAddsOneAuditRow ==
  [][(resp'.op = "delete" /\ resp'.status = 200)
     => /\ Cardinality(audit_logs' \ audit_logs) = 1
        /\ \A a \in audit_logs' \ audit_logs :
              a.action = "delete" /\ a.document_id = resp'.doc]_vars

\* C7: the audit log is append-only: a row that is in the log is in the log,
\* unchanged, after every step.
AuditLogAppendOnly ==
  [][audit_logs \subseteq audit_logs']_vars

\* The documents whose catalog row a delete has removed.
Deleted == IssuedDocIds \ (DOMAIN documents)

\* C8: a deleted document is in no catalog listing, and a download request
\* for its id, by any subject, fails with NotFound (status 404) and returns
\* no bytes.
DeletedDocumentNotFound ==
  (resp.op = "download" /\ Authenticated(resp.caller) /\ resp.doc \in Deleted)
    => /\ resp.doc \notin DOMAIN documents
       /\ resp.status = 404
       /\ resp.bytes = NoBytes

\* C10: no blob and no catalog row exist for a file over the ceiling that
\* was submitted to an upload path.
OversizeUploadRejected ==
  \A f \in {g \in Files : g.size > maxFileSize} :
    /\ \A d \in DOMAIN documents : documents[d].file_size # f.size
    /\ \A k \in DOMAIN bucket : bucket[k] # f.body
    /\ \A k \in DOMAIN disk : disk[k] # f.body

\* C11: an upload requested by a subject that is not an admin, on any upload
\* path, writes no blob, creates no catalog row and appends no audit row.
UploadAdminOnly ==
  [][(resp'.op = "upload" /\ ~IsAdmin(resp'.caller))
     => /\ bucket' = bucket /\ disk' = disk
        /\ documents' = documents
        /\ audit_logs' = audit_logs
        /\ resp'.status # 200]_vars

\* A user that is not an admin has submitted a file through the browser's
\* direct path, next to a document an admin uploaded, and was turned away.
UploadAdminOnlyWitness ==
  /\ resp.op = "upload" /\ resp.handler = "FileDropZone.uploadFiles/direct"
  /\ HasProfile(resp.caller) /\ ~IsAdmin(resp.caller)
  /\ resp.status = 500 /\ resp.error = "storage_failed"
  /\ DOMAIN documents # {}

\* C12: a delete requested by an authenticated subject that is not an admin
\* is answered with 403 and leaves the catalog, the blobs, the grants and the
\* audit log as they were.
DeleteAdminOnly ==
  [][(resp'.op = "delete" /\ HasProfile(resp'.caller) /\ ~IsAdmin(resp'.caller))
     => /\ resp'.status = 403
        /\ documents' = documents
        /\ bucket' = bucket /\ disk' = disk
        /\ document_access' = document_access
        /\ audit_logs' = audit_logs]_vars

\* A user that is not an admin has asked for the delete of a document that is
\* in the catalog and in the audit log, and was answered 403.
DeleteAdminOnlyWitness ==
  /\ resp.op = "delete" /\ resp.handler = "delete-file-local"
  /\ HasProfile(resp.caller) /\ ~IsAdmin(resp.caller)
  /\ resp.status = 403
  /\ resp.doc \in DOMAIN documents
  /\ \E a \in audit_logs : a.document_id = resp.doc

\* C13: create-user creates an identity (and its profile) only when the
\* caller is an authenticated subject whose profile role is admin.
CreateUserAdminOnly ==
  [][(resp'.op = "createUser" /\ DOMAIN profiles' # DOMAIN profiles)
     => IsAdmin(resp'.caller)]_vars

\* C14: create-user called with an e-mail address that has a profile answers
\* 400, creates no identity, sends no welcome e-mail and changes no profile.
CreateUserDuplicateRefused ==
  [][(resp'.op = "createUser" /\ resp'.user \in DOMAIN profiles)
     => /\ resp'.status = 400
        /\ profiles' = profiles
        /\ ~resp'.mailed]_vars

\* create-user has been called, by an admin, with the address of a user that
\* is there, next to a third user, and has answered 400.
CreateUserDuplicateRefusedWitness ==
  /\ resp.op = "createUser" /\ resp.status = 400 /\ resp.error = "exists"
  /\ IsAdmin(resp.caller)
  /\ resp.user \in DOMAIN profiles /\ ~IsAdmin(resp.user)
  /\ Cardinality(DOMAIN profiles) = 3

ServerHandlers ==
  {"download-document", "download-file-local", "delete-file-local",
   "upload-file-local/storage", "upload-file-local/local", "upload-file-local/multipart"}

\* C15: every request handler answers a missing or invalid credential with
\* 401, a failed permission check or a non-admin on an admin-only operation
\* with 403, and a document id without a catalog row, or a catalog row whose
\* blob is missing, with 404.
ErrorStatusTaxonomy ==
  resp.handler \in ServerHandlers
    => /\ resp.error = "unauthorized" => resp.status = 401
       /\ resp.error = "forbidden" => resp.status = 403
       /\ resp.error \in {"not_found", "file_not_found"} => resp.status = 404

\* C16: the policies of the database and of storage let an authenticated
\* subject that is not an admin read a document's catalog row, or its stored
\* object, only if a grant for that document and subject exists.
PoliciesEnforceGrant ==
  /\ (resp.op = "fetchDocuments" /\ Authenticated(resp.caller) /\ ~IsAdmin(resp.caller))
       => resp.sel \subseteq GrantsOf(document_access, resp.caller)
  /\ \A c \in Users : (Authenticated(c) /\ ~IsAdmin(c)) =>
       \A d \in DOMAIN documents :
          objects_select(c, documents[d].file_path) => HasGrant(document_access, d, c)

\* C17: a download or delete request acts on the document whose id the
\* request names; a request of the UI, which carries the id in the JSON body,
\* resolves to that document and to no other.
RequestResolvesNamedDocument ==
  (resp.op \in {"download", "delete"} /\ resp.asked # NoDoc)
    => resp.doc = resp.asked

\* C18: when two admins have run saveDocumentAccess for the same user at the
\* same time, with selections A and B, the user's grants are exactly A or
\* exactly B, under every interleaving of the deletes and the inserts.
ConcurrentSaveLastWriterWins ==
  (\A s \in Sessions : /\ pending[s].pc = "done"
                        /\ IsAdmin(pending[s].caller)
                        /\ pending[s].user = "u2")
    => GrantsOf(document_access, "u2") \in {pending[s].sel : s \in Sessions}

\* C19: whatever the number of profile inserts, and also when their
\* BEFORE INSERT triggers run at the same time, exactly one profile is
\* promoted to admin by the trigger: never a second one.
OneAutoPromotedAdmin ==
  /\ Cardinality({u \in DOMAIN profiles : profiles[u].role = "admin"}) <= 1
  /\ DOMAIN profiles # {} => \E u \in DOMAIN profiles : profiles[u].role = "admin"

\* C20: when the insert of saveDocumentAccess fails after its delete has
\* succeeded, the selected user is left with no grant at all, and the
\* operation reports an error.
FailedInsertLeavesNoGrants ==
  [][(/\ resp'.op = "saveDocumentAccess" /\ IsAdmin(resp'.caller)
      /\ resp'.failed = {"insert"})
     => /\ GrantsOf(document_access', resp'.user) = {}
        /\ resp'.status # 200 /\ resp'.error = "insert_failed"]_vars

\* An admin's edit of u2's grants, with a selection that is not empty, has
\* failed at the insert; u2 has no grant, and u1's grants are there.
FailedInsertLeavesNoGrantsWitness ==
  /\ resp.op = "saveDocumentAccess" /\ IsAdmin(resp.caller)
  /\ resp.failed = {"insert"} /\ resp.status = 500
  /\ resp.user = "u2" /\ resp.sel # {}
  /\ GrantsOf(document_access, "u2") = {}
  /\ GrantsOf(document_access, "u1") # {}

\* C21: an upload whose blob write succeeds and whose catalog insert then
\* fails answers with an error, creates no catalog row and appends no audit
\* row; when the removal of the blob it attempts succeeds, no blob is left at
\* the path it generated.  (For uploadFiles: a call with one file, which is
\* one pass of its loop.)
FailedInsertRemovesBlob ==
  [][(resp'.op = "upload" /\ "db" \in resp'.failed /\ resp'.total <= 1)
     => /\ resp'.status # 200 /\ resp'.error = "db_failed"
        /\ documents' = documents
        /\ audit_logs' = audit_logs
        /\ "cleanup" \notin resp'.failed
             => resp'.path \notin (DOMAIN bucket') \cup (DOMAIN disk')]_vars

\* The storage variant's catalog insert has failed next to a document that
\* is stored, the blob it had written is gone, and the other blob is there.
FailedInsertRemovesBlobWitness ==
  /\ resp.op = "upload" /\ resp.handler = "upload-file-local/storage"
  /\ resp.failed = {"db"} /\ resp.status = 500
  /\ resp.path \notin DOMAIN bucket
  /\ \E d \in DOMAIN documents : documents[d].file_path \in DOMAIN bucket

\* C22: after a delete attempt that removed the document's blob, the
\* document has no catalog row, also when the delete of the catalog row
\* failed.
RemovedBlobLeavesNoRow ==
  [][(/\ resp'.op = "delete" /\ resp'.doc \in DOMAIN documents
      /\ ("/var/www" \o documents[resp'.doc].file_path) \in DOMAIN disk
      /\ ("/var/www" \o documents[resp'.doc].file_path) \notin DOMAIN disk')
     => resp'.doc \notin DOMAIN documents']_vars

\* The bytes stored for a catalog row: the object of the bucket or the file
\* under /var/www its file_path names, or none.
BlobOf(docs, bkt, dsk, d) ==
  IF docs[d].file_path \in DOMAIN bkt THEN bkt[docs[d].file_path]
  ELSE IF ("/var/www" \o docs[d].file_path) \in DOMAIN dsk
    THEN dsk["/var/www" \o docs[d].file_path]
  ELSE NoBytes

\* C23: no two catalog rows hold the same storage path, also when two
\* uploads of the same file name get the same timestamp, and an upload
\* leaves the bytes of every document that exists as they were.
StoragePathUnique ==
  [][/\ \A d, e \in DOMAIN documents' :
           d # e => documents'[d].file_path # documents'[e].file_path
     /\ resp'.op = "upload" =>
           \A d \in DOMAIN documents :
              BlobOf(documents', bucket', disk', d) = BlobOf(documents, bucket, disk, d)]_vars

UploadFilesHandlers == {"FileDropZone.uploadFiles/direct", "FileDropZone.uploadFiles/invoke"}

BestEffortFailureKeepsResult ==
  [][(/\ resp' # resp
      /\ resp'.op \in {"upload", "download", "delete", "createUser"}
      /\ resp'.failed \cap {"audit", "email"} # {})
     => /\ resp'.status = 200 /\ resp'.error = "none"
        /\ resp'.op = "upload" =>
              /\ resp'.doc \in (DOMAIN documents') \ (DOMAIN documents)
              /\ BlobOf(documents', bucket', disk', resp'.doc) # NoBytes
        /\ resp'.op = "download" =>
              /\ resp'.bytes # NoBytes
              /\ resp'.bytes = BlobOf(documents, bucket, disk, resp'.doc)
        /\ resp'.op = "delete" => resp'.doc \in (DOMAIN documents) \ (DOMAIN documents')
        /\ resp'.op = "createUser" => resp'.user \in (DOMAIN profiles') \ (DOMAIN profiles)]_vars

\* download-document has sent the bytes of a document although its audit
\* insert was refused (the forwarded-for header listed two addresses).
BestEffortFailureKeepsResultWitness ==
  /\ resp.op = "download" /\ resp.handler = "download-document"
  /\ "audit" \in resp.failed
  /\ resp.status = 200 /\ resp.bytes = "x"
  /\ \A a \in audit_logs : a.action # "download"

\* C28: saveDocumentAccess run by an admin reports success only when the
\* grants stored for the selected user are then exactly the selection, also
\* when its delete step has failed.
SaveSuccessMeansSelection ==
  (/\ resp.op = "saveDocumentAccess" /\ IsAdmin(resp.caller)
   /\ resp.status = 200)
  => GrantsOf(document_access, resp.user) = resp.sel


\* C30: what download-document does with a request does not depend on
\* is_active of the requester's profile: when a step changes nothing but that
\* flag of a user, every request of that user to download-document gets the
\* same decision, the same response and the same audit row before and after.
ActiveFlagLeavesDownloadAlone ==
  [][\A u \in Members :
       (/\ resp'.op = "toggleUserStatus" /\ resp'.user = u
        /\ profiles' # profiles)
       => /\ profiles' = [profiles EXCEPT ![u].is_active = ~profiles[u].is_active]
          /\ \A d \in DocIds \cup {NoDoc}, xff \in {"", "10.0.0.7"} :
               download_document(Store, u, d, xff)
                 = (download_document(Store, u, d, xff))']_vars

\* A user who is no admin and whose profile is not active has been served a
\* document by download-document, and the download is in the audit log.
ActiveFlagLeavesDownloadAloneWitness ==
  /\ resp.op = "download" /\ resp.handler = "download-document"
  /\ resp.status = 200 /\ resp.failed = {}
  /\ ~IsAdmin(resp.caller) /\ ~profiles[resp.caller].is_active
  /\ \E a \in audit_logs : a.user_id = resp.caller /\ a.action = "download"


\* C26: in the browser session the cached profile is there only while the
\* cached user is: once the listener has handled a sign-out and no profile
\* fetch is pending, the profile is null.
ProfileOnlyWithUser ==
  (auth.user = NoUser /\ auth.fetches = {}) => auth.profile = Null

\* C27: a call of signIn ends with loading false: once signIn has returned
\* and every pending callback has run, the loading flag is false.
SignInEndsLoading ==
  (auth.pc = "done" /\ auth.fetches = {}) => ~auth.loading

====
